---- MODULE Spec2Model ----
(***************************************************************************)
(* Hebrew palindrome finder (reference-aware variant of utils/hebrew):     *)
(* normalizeHebrew, isPalindrome and findPalindromes.                      *)
(*                                                                         *)
(* A text is a sequence of characters (UTF-16 code units; every character  *)
(* the code distinguishes is in the BMP).  The characters are abstracted   *)
(* to one representative per class the regular expressions tell apart:     *)
(*   "a" "m"  base Hebrew letters          (U+05D0..U+05EA, non-final)     *)
(*   "M"      a final-form letter, of "m"  (one of the five sofit letters) *)
(*   "v"      a vowel / cantillation mark  (U+0591..U+05C7)                *)
(*   ","      a reference separator        (comma or colon)                *)
(*   "q"      a quote mark                 (double, single, gershayim...)  *)
(*   "(" ")" "[" "]"  brackets                                             *)
(*   " "      white space                                                  *)
(*   "1"      any other character (digit, Latin letter, punctuation)       *)
(***************************************************************************)
EXTENDS Integers, Sequences, FiniteSets

VARIABLES text, minLength, maxLength, pc, span, canonical, previous,
          verdict, pushed, returned,
          inputText, results, heap, pending, lastFound

\* the inputs and results of the functions of utils/hebrew
coreVars == <<text, minLength, maxLength, pc, span, canonical, previous,
              verdict, pushed, returned>>

\* the App component: its state inputText and results, the objects its
\* result arrays refer to, the lookups awaiting identifySource, and what
\* the latest search or clear put on display
appVars == <<inputText, results, heap, pending, lastFound>>

vars == <<coreVars, appVars>>

----------------------------------------------------------------------------
(* Character classes *)

BaseLetters == {"a", "m"}

FinalLetters == {"M"}

\* [\u05D0-\u05EA]: the final forms lie inside this range too
HebrewLetters == BaseLetters \cup FinalLetters

\* [\u0591-\u05C7]
Niqqud == {"v"}

\* [,:]
RefSeparators == {","}

\* the opening class of refPattern: the four quote marks and (
RefOpeners == {"q", "("}

\* the closing class of refPattern: the four quote marks and )
RefClosers == {"q", ")"}

\* [(\[]
ParenOpeners == {"(", "["}

\* [)\]]
ParenClosers == {")", "]"}

\* \s, and what String.prototype.trim removes
Whitespace == {" "}

Alphabet == HebrewLetters \cup Niqqud \cup RefSeparators \cup RefOpeners
              \cup RefClosers \cup ParenOpeners \cup ParenClosers
              \cup Whitespace \cup {"1"}

sofitMap == [c \in FinalLetters |-> "m"]

----------------------------------------------------------------------------
(* String primitives *)

\* text.substring(i, j) with 0-based i and exclusive j, 0 <= i <= j <= length
substring(s, i, j) == SubSeq(s, i + 1, j)

\* str.split('').reverse().join('')
reversed(s) == [k \in 1..Len(s) |-> s[Len(s) + 1 - k]]

\* white space removed everywhere, as replace(/\s+/g, '') would
trimEverywhere(s) == LET Kept(c) == c \notin Whitespace IN SelectSeq(s, Kept)

\* String.prototype.trim
trim(s) ==
  LET keep == {k \in 1..Len(s) : s[k] \notin Whitespace}
      Min(S) == CHOOSE x \in S : \A y \in S : x <= y
      Max(S) == CHOOSE x \in S : \A y \in S : x >= y
  IN  IF keep = {} THEN <<>> ELSE SubSeq(s, Min(keep), Max(keep))

\* s[p] is a character of class C (false beyond the end of s)
At(s, p, C) == p >= 1 /\ p <= Len(s) /\ s[p] \in C

\* s[p..p+k-1] are all characters of class C
Run(s, p, k, C) == \A d \in 0..(k - 1) : At(s, p + d, C)

Greatest(S) == CHOOSE x \in S : \A y \in S : x >= y

----------------------------------------------------------------------------
(* normalizeHebrew *)

\* letters{1,3} closer? (the end of refPattern) matched at r: the position after the
\* match, 0 when there is none.  Both quantifiers are greedy and nothing
\* follows them, so the first alternative tried is the one taken.
refTailEnd(s, r) ==
  LET K == {k \in 1..3 : Run(s, r, k, HebrewLetters)}
  IN  IF K = {} THEN 0
      ELSE LET e == r + Greatest(K)
           IN  IF At(s, e, RefClosers) THEN e + 1 ELSE e

\* letters{1,3} [,:] followed by the tail, matched at q: the greedy
\* {1,3} backtracks to the longest run after which the rest matches.
refBodyEnd(s, q) ==
  LET K == {k \in 1..3 : /\ Run(s, q, k, HebrewLetters)
                         /\ At(s, q + k, RefSeparators)
                         /\ refTailEnd(s, q + k + 1) > 0}
  IN  IF K = {} THEN 0 ELSE refTailEnd(s, q + Greatest(K) + 1)

\* refPattern matched at p: the optional opener is tried taken first, then skipped
refMatchEnd(s, p) ==
  IF At(s, p, RefOpeners) /\ refBodyEnd(s, p + 1) > 0
  THEN refBodyEnd(s, p + 1)
  ELSE refBodyEnd(s, p)

\* parenRefPattern matched at p: [(\[] letters{1,3} \s+ letters{1,3} [)\]]
parenMatchEnd(s, p) ==
  IF ~At(s, p, ParenOpeners) THEN 0
  ELSE
    LET C == {c \in (1..3) \X (1..Len(s)) \X (1..3) :
                /\ Run(s, p + 1, c[1], HebrewLetters)
                /\ Run(s, p + 1 + c[1], c[2], Whitespace)
                /\ Run(s, p + 1 + c[1] + c[2], c[3], HebrewLetters)
                /\ At(s, p + 1 + c[1] + c[2] + c[3], ParenClosers)}
        Before(c, d) == \/ c[1] > d[1]
                        \/ c[1] = d[1] /\ c[2] > d[2]
                        \/ c[1] = d[1] /\ c[2] = d[2] /\ c[3] >= d[3]
    IN  IF C = {} THEN 0
        ELSE LET c == CHOOSE c \in C : \A d \in C : Before(c, d)
             IN  p + 1 + c[1] + c[2] + c[3] + 1

\* text.replace(refPattern, ' ') from position p on: leftmost match first,
\* the scan resumes after each match
RECURSIVE replaceRefs(_, _)
replaceRefs(s, p) ==
  IF p > Len(s) THEN <<>>
  ELSE LET e == refMatchEnd(s, p)
       IN  IF e > 0 THEN <<" ">> \o replaceRefs(s, e)
           ELSE <<s[p]>> \o replaceRefs(s, p + 1)

\* textWithoutRefs.replace(parenRefPattern, ' ')
RECURSIVE replaceParenRefs(_, _)
replaceParenRefs(s, p) ==
  IF p > Len(s) THEN <<>>
  ELSE LET e == parenMatchEnd(s, p)
       IN  IF e > 0 THEN <<" ">> \o replaceParenRefs(s, e)
           ELSE <<s[p]>> \o replaceParenRefs(s, p + 1)

\* both reference patterns removed, in the code's order
stripReferences(s) == replaceParenRefs(replaceRefs(s, 1), 1)

\* textWithoutRefs.replace(/[U+0591-U+05C7]/g, '')
stripNiqqud(s) == LET Kept(c) == c \notin Niqqud IN SelectSeq(s, Kept)

\* the loop with the sofitMap branch left out: final forms are kept as read
foldCharNoSofit(c) == IF c \in HebrewLetters THEN <<c>> ELSE <<>>

\* the loop with the letter test left out: every other character is kept
foldCharUnfiltered(c) ==
  IF c \in DOMAIN sofitMap THEN <<sofitMap[c]>> ELSE <<c>>

\* one turn of the loop over noVowels: what is appended to normalized
foldChar(c) ==
  IF c \in DOMAIN sofitMap THEN <<sofitMap[c]>>
  ELSE IF c \in HebrewLetters THEN <<c>>
  ELSE <<>>

RECURSIVE foldAll(_, _)
foldAll(s, p) ==
  IF p > Len(s) THEN <<>> ELSE foldChar(s[p]) \o foldAll(s, p + 1)

normalizeHebrew(s) == foldAll(stripNiqqud(stripReferences(s)), 1)

\* the test without the floor of 3 characters
isPalindromeNoFloor(str) == str = reversed(str)

\* str.length < 3 ? false : str === reversed
isPalindrome(str) ==
  IF Len(str) < 3 THEN FALSE ELSE str = reversed(str)

----------------------------------------------------------------------------
(* findPalindromes *)

\* text[i] can start a sequence: a Hebrew letter, a quote mark or (
startsSequence(c) == c \in HebrewLetters \cup RefOpeners

\* the safety break on the raw substring
rawCutoff(originalSub, maxLen) == Len(originalSub) > maxLen * 4

\* the scan without the break on the canonical length
noCanonicalCutoff(normalizedSub, maxLen) == FALSE

\* the break on the canonical length
canonicalCutoff(normalizedSub, maxLen) == Len(normalizedSub) > maxLen

\* the test guarding results.push
accepts(normalizedSub, minLen) ==
  Len(normalizedSub) >= minLen /\ isPalindrome(normalizedSub)

\* the pushed entry
entry(originalSub, normalizedSub) ==
  [normalized |-> normalizedSub,
   original   |-> trim(originalSub),
   length     |-> Len(normalizedSub)]

\* the inner loop from end offset j on, for the start offset i (0-based)
RECURSIVE scanFrom(_, _, _, _, _)
scanFrom(s, i, j, minLen, maxLen) ==
  IF j > Len(s) THEN <<>>
  ELSE LET originalSub == substring(s, i, j)
       IN  IF rawCutoff(originalSub, maxLen) THEN <<>>
           ELSE LET normalizedSub == normalizeHebrew(originalSub)
                IN  IF canonicalCutoff(normalizedSub, maxLen) THEN <<>>
                    ELSE (IF accepts(normalizedSub, minLen)
                          THEN <<entry(originalSub, normalizedSub)>>
                          ELSE <<>>)
                         \o scanFrom(s, i, j + 1, minLen, maxLen)

\* the outer loop from start offset i on: results in the order pushed
RECURSIVE scanAll(_, _, _, _)
scanAll(s, i, minLen, maxLen) ==
  IF i >= Len(s) THEN <<>>
  ELSE (IF startsSequence(s[i + 1])
        THEN scanFrom(s, i, i + 1, minLen, maxLen)
        ELSE <<>>)
       \o scanAll(s, i + 1, minLen, maxLen)

\* the comparator with its operands exchanged: a.length - b.length
orderedAscending(a, b) == a.length - b.length <= 0

\* the comparator (a, b) => b.length - a.length puts a before b when <= 0
ordered(a, b) == b.length - a.length <= 0

\* Array.prototype.sort with that comparator; the sort is stable, so an
\* entry goes after every entry already placed that it does not precede
RECURSIVE insertSorted(_, _)
insertSorted(sorted, e) ==
  IF sorted = <<>> THEN <<e>>
  ELSE IF ordered(sorted[Len(sorted)], e) THEN Append(sorted, e)
  ELSE Append(insertSorted(SubSeq(sorted, 1, Len(sorted) - 1), e),
              sorted[Len(sorted)])

RECURSIVE sortFrom(_, _, _)
sortFrom(list, p, sorted) ==
  IF p > Len(list) THEN sorted
  ELSE sortFrom(list, p + 1, insertSorted(sorted, list[p]))

sortByLength(list) == sortFrom(list, 1, <<>>)

\* the key of the earlier variant: normalized and original together
keyWithOriginal(res) == <<res.normalized, res.original>>

\* the key of the uniqueMatches map
key(res) == res.normalized

\* the replacement test with <= : the last of the shortest wins
preferOrEqual(res, existing) == Len(res.original) <= Len(existing.original)

\* res replaces the entry already stored under its key
prefer(res, existing) == Len(res.original) < Len(existing.original)

\* one turn of results.forEach on the map, kept as the sequence of its
\* values in insertion order (Map.set on a present key keeps its place)
visit(uniqueMatches, res) ==
  LET at == {k \in 1..Len(uniqueMatches) : key(uniqueMatches[k]) = key(res)}
  IN  IF at = {} THEN Append(uniqueMatches, res)
      ELSE LET k == CHOOSE k \in at : TRUE
           IN  IF prefer(res, uniqueMatches[k])
               THEN [uniqueMatches EXCEPT ![k] = res]
               ELSE uniqueMatches

RECURSIVE forEach(_, _, _)
forEach(list, p, uniqueMatches) ==
  IF p > Len(list) THEN uniqueMatches
  ELSE forEach(list, p + 1, visit(uniqueMatches, list[p]))

\* the post-pass: sort, group by key, sort the map's values
resolve(list) == sortByLength(forEach(sortByLength(list), 1, <<>>))

findPalindromes(s, minLen, maxLen) == resolve(scanAll(s, 0, minLen, maxLen))

----------------------------------------------------------------------------
(* Inputs *)

MaxWords == 3

MaxNormWords == 3

\* the texts made of at most n words of V
RECURSIVE Phrases(_, _)
Phrases(V, n) ==
  IF n = 0 THEN {<<>>}
  ELSE LET P == Phrases(V, n - 1)
       IN  P \cup {p \o w : p \in P, w \in V}

\* every character alone, a pointed letter, a letter after an opening
\* parenthesis, a letter before a closing one, and a bare reference
NormVocabulary ==
  {<<c>> : c \in Alphabet}
    \cup {<<"a", "v">>, <<"(", "a">>, <<"m", ")">>, <<"a", ",", "m">>}

NormTexts == Phrases(NormVocabulary, MaxNormWords)

\* letters alone and in pairs, a vowel mark, a space, a pair that ends
\* a word, and a reference of each of the two shapes
ScanVocabulary ==
  {<<"a">>, <<"m">>, <<"M">>, <<"v">>, <<" ">>,
   <<"m", "a">>, <<"m", "m">>, <<"m", "m", " ">>,
   <<"(", "m", "m", ",", "m", ")">>,
   <<"[", "m", "m", " ", "m", "]">>}

ScanTexts == Phrases(ScanVocabulary, MaxWords)

\* <<minLength, maxLength>>: the defaults' shape (3 up to a maximum), a
\* minimum below the floor of isPalindrome, and malformed ranges
Ranges == {<<3, 3>>, <<0, 4>>, <<4, 3>>, <<3, 0>>, <<3, -1>>}

----------------------------------------------------------------------------
(* State machine: the inputs are drawn at the start, each action applies *)
(* one of the exported functions to them.                                *)

Idle ==
  /\ pc = "input"
  /\ span = <<0, 0>>
  /\ canonical = <<>>
  /\ previous = <<>>
  /\ verdict = FALSE
  /\ pushed = <<>>
  /\ returned = <<>>
  /\ inputText = <<>>
  /\ results = <<>>
  /\ heap = <<>>
  /\ pending = {}
  /\ lastFound = <<>>

Init ==
  /\ text \in ScanTexts
  /\ \E r \in Ranges : minLength = r[1] /\ maxLength = r[2]
  /\ Idle

\* findPalindromes(text, minLength, maxLength), with the list it pushed
\* before the post-pass kept beside the list it returns
FindPalindromes ==
  /\ pc = "input"
  /\ pushed' = scanAll(text, 0, minLength, maxLength)
  /\ returned' = resolve(pushed')
  /\ pc' = "found"
  /\ UNCHANGED <<text, minLength, maxLength, span, canonical, previous, verdict,
               appVars>>

Next == FindPalindromes

Spec == Init /\ [][Next]_vars

InitNorm ==
  /\ text \in NormTexts
  /\ minLength = 3
  /\ maxLength = 50
  /\ Idle

\* normalizeHebrew(text)
Normalize ==
  /\ pc = "input"
  /\ canonical' = normalizeHebrew(text)
  /\ span' = <<0, Len(text)>>
  /\ pc' = "normalized"
  /\ UNCHANGED <<text, minLength, maxLength, previous, verdict, pushed, returned,
               appVars>>

\* normalizeHebrew applied to its own result
Renormalize ==
  /\ pc = "normalized"
  /\ previous' = canonical
  /\ canonical' = normalizeHebrew(canonical)
  /\ pc' = "renormalized"
  /\ UNCHANGED <<text, minLength, maxLength, span, verdict, pushed, returned,
               appVars>>

\* isPalindrome(text)
IsPalindrome ==
  /\ pc = "input"
  /\ verdict' = isPalindrome(text)
  /\ pc' = "tested"
  /\ UNCHANGED <<text, minLength, maxLength, span, canonical, previous, pushed, returned,
               appVars>>

NextNorm == Normalize \/ Renormalize \/ IsPalindrome

SpecNorm == InitNorm /\ [][NextNorm]_vars

\* the inner loop of findPalindromes entered at start offset i: the first
\* substring text.substring(i, i + 1) is normalized
StartSpan ==
  /\ pc = "input"
  /\ \E i \in 0..(Len(text) - 1) :
       /\ startsSequence(text[i + 1])
       /\ span' = <<i, i + 1>>
       /\ canonical' = normalizeHebrew(substring(text, i, i + 1))
  /\ pc' = "span"
  /\ UNCHANGED <<text, minLength, maxLength, previous, verdict, pushed, returned,
               appVars>>

\* j++ : the next substring from the same start offset is normalized
ExtendSpan ==
  /\ pc = "span"
  /\ span[2] < Len(text)
  /\ span' = <<span[1], span[2] + 1>>
  /\ previous' = canonical
  /\ canonical' = normalizeHebrew(substring(text, span[1], span[2] + 1))
  /\ UNCHANGED <<text, minLength, maxLength, pc, verdict, pushed, returned,
               appVars>>

NextSpan == StartSpan \/ ExtendSpan

SpecSpan == InitNorm /\ [][NextSpan]_vars

----------------------------------------------------------------------------
(* The App component.  An element of a results array is a reference      *)
(* <<g, k>> to the k-th object made by the g-th search, heap[g][k]: the  *)
(* arrays made by [...results] share their objects, which lookupSourceFor *)
(* changes in place.                                                      *)

MaxSearches == 2

\* what the user can have typed: nothing, white space, and two texts
AppTexts ==
  {<<>>, <<" ">>, <<"a", "m", "a">>, <<"m", "m", "m", "m">>}

\* the object a reference points to
deref(ref) == heap[ref[1]][ref[2]]

\* results.map(...) as rendered: the objects of the results state
displayed == [k \in 1..Len(results) |-> deref(results[k])]

\* the state with the object at ref changed to obj
store(ref, obj) == [heap EXCEPT ![ref[1]][ref[2]] = obj]

InitApp ==
  /\ text = <<>>
  /\ minLength = 3
  /\ maxLength = 60
  /\ Idle

\* the textarea's onChange: setInputText(e.target.value)
SetInputText ==
  /\ \E t \in AppTexts : inputText' = t
  /\ UNCHANGED <<coreVars, results, heap, pending, lastFound>>

\* handleSearch: nothing for a blank input, else the entries found, each
\* copied into a new object with isCheckingSource false
HandleSearch ==
  /\ Len(heap) < MaxSearches
  /\ IF trim(inputText) = <<>>
     THEN UNCHANGED <<results, heap, lastFound>>
     ELSE LET found == findPalindromes(inputText, minLength, maxLength)
          IN  /\ heap' = Append(heap,
                   [k \in 1..Len(found) |->
                      [normalized |-> found[k].normalized,
                       original |-> found[k].original,
                       length |-> found[k].length,
                       source |-> "none",
                       isCheckingSource |-> FALSE]])
              /\ results' = [k \in 1..Len(found) |-> <<Len(heap) + 1, k>>]
              /\ lastFound' = found
  /\ UNCHANGED <<coreVars, inputText, pending>>

\* lookupSourceFor(index) up to its await: nothing when the entry has a
\* source or is being checked, else the flag is set on the object, a copy
\* of the array is stored, and the call keeps the results it was made with
LookupSourceFor ==
  /\ \E index \in 0..(Len(results) - 1) :
       LET result == deref(results[index + 1])
       IN  IF result.source # "none" \/ result.isCheckingSource
           THEN UNCHANGED <<results, heap, pending>>
           ELSE /\ heap' = store(results[index + 1],
                                 [result EXCEPT !.isCheckingSource = TRUE])
                /\ results' = results
                /\ pending' = pending \cup {[results |-> results, index |-> index]}
  /\ UNCHANGED <<coreVars, inputText, lastFound>>

\* the rest of lookupSourceFor once identifySource has settled: a copy of
\* the results the call was made with is stored, its entry's flag cleared
\* and, when a source was found, its source set
settle(call, source) ==
  LET ref == call.results[call.index + 1]
  IN  /\ heap' = store(ref, [deref(ref) EXCEPT !.isCheckingSource = FALSE,
                                               !.source = source])
      /\ results' = call.results
      /\ pending' = pending \ {call}
      /\ UNCHANGED <<coreVars, inputText, lastFound>>

\* identifySource resolved with found: true
LookupFound ==
  \E call \in pending : settle(call, "found")

\* identifySource resolved with found: false
LookupNotFound ==
  \E call \in pending :
    settle(call, deref(call.results[call.index + 1]).source)

\* identifySource rejected: the catch branch
LookupFailed ==
  \E call \in pending :
    settle(call, deref(call.results[call.index + 1]).source)

\* clearAll
ClearAll ==
  /\ inputText' = <<>>
  /\ results' = <<>>
  /\ lastFound' = <<>>
  /\ UNCHANGED <<coreVars, heap, pending>>

NextApp ==
  \/ SetInputText
  \/ HandleSearch
  \/ LookupSourceFor
  \/ LookupFound
  \/ LookupNotFound
  \/ LookupFailed
  \/ ClearAll

SpecApp == InitApp /\ [][NextApp]_vars

----------------------------------------------------------------------------
(* Properties *)

\* s reads the same in both directions
Mirrored(s) == \A k \in 1..Len(s) : s[k] = s[Len(s) + 1 - k]

\* the number of Hebrew letters of s
LetterCount(s) == Cardinality({k \in 1..Len(s) : s[k] \in HebrewLetters})

\* C1: every returned entry has length equal to the number of letters of
\* its normalized text, within [minLength, maxLength], and its normalized
\* text is a palindrome of at least 3 letters.
C1_EntriesWellFormed ==
  pc = "found" =>
    \A k \in 1..Len(returned) :
      LET e == returned[k]
      IN  /\ e.length = Len(e.normalized)
          /\ e.length = LetterCount(e.normalized)
          /\ minLength <= e.length
          /\ e.length <= maxLength
          /\ isPalindrome(e.normalized)
          /\ Mirrored(e.normalized)
          /\ e.length >= 3

\* an entry is returned whose original text holds more than its letters,
\* for a text that also holds a palindrome longer than maxLength
C1_Witness ==
  /\ pc = "found"
  /\ \E k \in 1..Len(returned) : returned[k].original # returned[k].normalized
  /\ \E i \in 0..Len(text), j \in 0..Len(text) :
       /\ i < j
       /\ Len(normalizeHebrew(substring(text, i, j))) > maxLength
       /\ Mirrored(normalizeHebrew(substring(text, i, j)))

\* C2: a span that starts at a letter or an opener, is at most 4*maxLength
\* long and whose canonical form is a palindrome of a length within
\* [max(minLength, 3), maxLength] has its canonical form among the
\* returned entries.
C2_NoLegitimateMatchDropped ==
  pc = "found" =>
    \A i \in 0..(Len(text) - 1) : \A j \in (i + 1)..Len(text) :
      LET n == normalizeHebrew(substring(text, i, j))
      IN  (/\ startsSequence(text[i + 1])
           /\ j - i <= 4 * maxLength
           /\ Mirrored(n)
           /\ Len(n) >= 3
           /\ Len(n) >= minLength
           /\ Len(n) <= maxLength)
          => \E k \in 1..Len(returned) : returned[k].normalized = n

\* C3: no two returned entries have the same normalized text.
C3_CanonicalUnique ==
  pc = "found" =>
    \A k \in 1..Len(returned) : \A l \in 1..Len(returned) :
      k # l => returned[k].normalized # returned[l].normalized

\* two pushed entries with one normalized text and different original
\* texts were collapsed into one returned entry
C3_Witness ==
  /\ pc = "found"
  /\ \E k \in 1..Len(pushed) : \E l \in 1..Len(pushed) :
       /\ pushed[k].normalized = pushed[l].normalized
       /\ pushed[k].original # pushed[l].original
  /\ Len(returned) >= 2

\* C4: the returned list is ordered by non-increasing length.
C4_SortedByLength ==
  pc = "found" =>
    \A k \in 1..(Len(returned) - 1) :
      returned[k].length >= returned[k + 1].length

\* entries of different lengths are returned, and they were pushed with
\* a shorter one before a longer one
C4_Witness ==
  /\ pc = "found"
  /\ \E k \in 1..(Len(returned) - 1) :
       returned[k].length > returned[k + 1].length
  /\ \E k \in 1..Len(pushed) : \E l \in 1..Len(pushed) :
       k < l /\ pushed[k].length < pushed[l].length

\* the index in pushed of the entry that represents pushed[k]'s canonical
\* form: the shortest original text, the first pushed among the shortest
Representative(k) ==
  LET group == {l \in 1..Len(pushed) : pushed[l].normalized = pushed[k].normalized}
  IN  CHOOSE b \in group : \A l \in group :
        \/ Len(pushed[b].original) < Len(pushed[l].original)
        \/ Len(pushed[b].original) = Len(pushed[l].original) /\ b <= l

\* C5: of the pushed entries that share a canonical form, exactly the one
\* with the shortest original text is returned, the first pushed on a tie.
C5_ShortestFirstKept ==
  pc = "found" =>
    /\ \A k \in 1..Len(pushed) :
         Cardinality({r \in 1..Len(returned) :
                        returned[r].normalized = pushed[k].normalized}) = 1
    /\ \A k \in 1..Len(pushed) : \A r \in 1..Len(returned) :
         returned[r].normalized = pushed[k].normalized
           => returned[r] = pushed[Representative(k)]

\* a tie at the shortest length between different original texts, and a
\* longer original text of the same canonical form pushed before them
C5_Witness ==
  /\ pc = "found"
  /\ \E k \in 1..Len(pushed) : \E l \in 1..Len(pushed) :
       /\ k < l
       /\ Representative(l) = k
       /\ pushed[k].original # pushed[l].original
       /\ Len(pushed[k].original) = Len(pushed[l].original)
  /\ \E k \in 1..Len(pushed) :
       /\ Representative(k) > k
       /\ Len(pushed[Representative(k)].original) < Len(pushed[k].original)

\* C6: a malformed range (minLength > maxLength, minLength <= 0 or
\* maxLength <= 0) and the empty text both give an empty list.
C6_MalformedRangeEmpty ==
  (/\ pc = "found"
   /\ \/ minLength > maxLength
      \/ minLength <= 0
      \/ maxLength <= 0
      \/ text = <<>>)
  => returned = <<>>

\* C7: normalizeHebrew(text) holds base letters only, and it is, letter by
\* letter, the Hebrew letters left after the references are removed, each
\* final form replaced by its base form.
C7_OnlyBaseLetters ==
  pc = "normalized" =>
    LET IsLetter(c) == c \in HebrewLetters
        letters == SelectSeq(stripReferences(text), IsLetter)
    IN  /\ \A k \in 1..Len(canonical) : canonical[k] \in BaseLetters
        /\ Len(canonical) = Len(letters)
        /\ \A k \in 1..Len(letters) :
             canonical[k] = IF letters[k] \in FinalLetters
                            THEN sofitMap[letters[k]]
                            ELSE letters[k]

\* a text with a final form, a vowel mark and a removed reference is
\* normalized to a non-empty canonical form
C7_Witness ==
  /\ pc = "normalized"
  /\ canonical # <<>>
  /\ \E k \in 1..Len(text) : text[k] \in FinalLetters
  /\ \E k \in 1..Len(text) : text[k] \notin HebrewLetters
  /\ LetterCount(text) > Len(canonical)

\* C8: normalizing a canonical form gives the same canonical form.
C8_Idempotent ==
  pc = "renormalized" => canonical = previous

\* a non-empty canonical form, of a text that held a reference, was
\* normalized again
C8_Witness ==
  /\ pc = "renormalized"
  /\ previous # <<>>
  /\ previous # text
  /\ stripReferences(text) # text

\* C9: isPalindrome(s) is true exactly when s has at least 3 characters
\* and equals its reversal.
C9_PalindromeIff ==
  pc = "tested" => (verdict <=> (Len(text) >= 3 /\ Mirrored(text)))

\* isPalindrome accepted a text of 3 characters
C9_Witness ==
  /\ pc = "tested"
  /\ verdict
  /\ Len(text) = 3
  /\ text[1] # text[2]

\* C10: for a fixed start offset, the canonical length never decreases
\* when the end offset grows by one.
C10_CanonicalLengthMonotone ==
  pc = "span" => Len(canonical) >= Len(previous)

\* C11: normalizing the original text of a returned entry gives the
\* entry's normalized text.
C11_OriginalRenormalizes ==
  pc = "found" =>
    \A k \in 1..Len(returned) :
      normalizeHebrew(returned[k].original) = returned[k].normalized

\* a returned entry that was pushed, among others, for a span that ends
\* in white space, which trim removed, while the white space inside its
\* original text stayed
C11_Witness ==
  /\ pc = "found"
  /\ \E k \in 1..Len(returned) :
       /\ \E c \in 1..Len(returned[k].original) :
            returned[k].original[c] \in Whitespace
       /\ \E i \in 0..(Len(text) - 1) : \E j \in (i + 1)..Len(text) :
            /\ startsSequence(text[i + 1])
            /\ text[j] \in Whitespace
            /\ trim(substring(text, i, j)) = returned[k].original
            /\ normalizeHebrew(substring(text, i, j)) = returned[k].normalized

\* the entries on display without their source and isCheckingSource
shownEntries ==
  [k \in 1..Len(displayed) |->
     [normalized |-> displayed[k].normalized,
      original |-> displayed[k].original,
      length |-> displayed[k].length]]

\* C12: whatever lookups settle in between, the entries on display are
\* those of the most recent search or clear.
C12_LatestResultsShown == shownEntries = lastFound

====
